---- MODULE Spec2Model ----
(***************************************************************************)
(* The GitLab client of devrpg: query, fetchFileContent and diffFile.     *)
(* The repository holds two revisions of the class; the variable impl     *)
(* says which one is instantiated:                                         *)
(*   "part_000"   - src/unnamed/part_000 (initial commits and Absent       *)
(*                  contents are handled),                                 *)
(*   "src_gitlab" - src/src/gitlab.js (initial commits are rejected, no    *)
(*                  Absent checks before diffing).                         *)
(* One diffFile call is followed from the call to the settling of its      *)
(* promise; every step is one JavaScript job: the synchronous body of      *)
(* diffFile, or the arrival of one HTTP response together with all the     *)
(* promise callbacks it triggers.                                          *)
(***************************************************************************)
EXTENDS Integers, Sequences, FiniteSets, TLC

\* ---------------------------------------------------------------- bounds
MaxLines == 3        \* longest file text, in lines
MaxParents == 2      \* most parent ids in a commit's metadata

\* ------------------------------------------------------------- data sets
Impls == {"part_000", "src_gitlab"}

\* The status argument; "unknown" stands for every value the code does not name.
Statuses == {"addition", "removal", "modification", "unknown"}

LineSet == {"a", "b"}

\* A decoded file text: its sequence of lines.
Texts == UNION {[1..n -> LineSet] : n \in 0..MaxLines}

\* Dates as new Date(...) sees them; getMonth() is the 0-based month of year.
Years == {2016, 2017}
Months == {0, 11}
Dates == [year : Years, month : Months]

getMonth(d) == d.month

\* Parent id lists of length 0..MaxParents: <<>>, <<1>>, <<1, 2>>, ...
ParentLists == {[i \in 1..n |-> i] : n \in 0..MaxParents}

\* --------------------------------------------------------------- base64
\* One line of text and its base64 form ("a\n" is YQo=, "b\n" is Ygo=).
B64 == [a |-> "YQo=", b |-> "Ygo="]

btoa(text) == [i \in 1..Len(text) |-> B64[text[i]]]

atobLine(tok) == CHOOSE l \in LineSet : B64[l] = tok

atob(payload) == [i \in 1..Len(payload) |-> atobLine(payload[i])]

\* ------------------------------------------------------- the File object
\* File of ./file (constructor, content, additions).  A File without content
\* answers getContent() === false: the Absent marker, distinct from the empty
\* payload.
Absent == [isSet |-> FALSE, data |-> <<>>]

NewFile == [content |-> Absent, additions |-> 0]

setContent(file, payload) ==
    [file EXCEPT !.content = [isSet |-> TRUE, data |-> payload]]

\* Mutant: !getContent() in place of getContent() === false.
IsAbsent_Falsy(file) == ~file.content.isSet \/ file.content.data = <<>>

IsAbsent(file) == ~file.content.isSet

getLines(file) ==
    IF IsAbsent(file) THEN 0 ELSE Len(atob(file.content.data))

setAdditions(file, n) == [file EXCEPT !.additions = n]

addAdditions(file, n) == [file EXCEPT !.additions = @ + n]

\* -------------------------------------------------------- JSON and HTTP
\* A parsed JSON value, as far as the client reads it.
JsonNull ==
    [null |-> TRUE, parent_ids |-> <<>>, created_at |-> [year |-> 2016, month |-> 0],
     content |-> <<>>, message |-> ""]

JsonCommit(parents, created) ==
    [JsonNull EXCEPT !.null = FALSE, !.parent_ids = parents, !.created_at = created]

JsonFile(text) == [JsonNull EXCEPT !.null = FALSE, !.content = btoa(text)]

JsonError(msg) == [JsonNull EXCEPT !.null = FALSE, !.message = msg]

\* What got() can come back with: a 2xx response ("ok"), an HTTP error that
\* carries a response ("http"), or a failure without a response ("net").
\* parseable says whether the body is JSON text; value is what it parses to.
Response(kind, parseable, value) ==
    [kind |-> kind, parseable |-> parseable, value |-> value]

FailedResponses ==
    { Response("ok", FALSE, JsonNull),
      Response("http", TRUE, JsonError("404 Not Found")),
      Response("http", TRUE, JsonNull),
      Response("http", FALSE, JsonNull),
      Response("net", FALSE, JsonNull) }

\* The outcomes of the metadata query of commit c: its data, nothing, a failure.
CommitResponses(c) ==
    { Response("ok", TRUE, JsonNull),
      Response("ok", TRUE, JsonCommit(c.parent_ids, c.created_at)) }
    \cup FailedResponses

FileResponses ==
    { Response("ok", TRUE, JsonNull) }
    \cup { Response("ok", TRUE, JsonFile(t)) : t \in Texts }
    \cup FailedResponses

\* ------------------------------------------------------------ GitLab.query
\* The settled (or forever pending) state of the promise query() returns, for
\* one outcome of got().  A body that is not JSON makes JSON.parse throw inside
\* the then-callback; the catch-callback then reads err.response of an error
\* that has none and throws itself, as it does for a failure without a
\* response: in both cases neither resolve nor reject is ever called.
query(resp) ==
    CASE resp.kind = "ok" /\ resp.parseable ->
             [state |-> "resolved", parseable |-> TRUE, value |-> resp.value]
      [] resp.kind = "http" ->
             [state |-> "rejected", parseable |-> resp.parseable, value |-> resp.value]
      [] OTHER ->
             [state |-> "pending", parseable |-> FALSE, value |-> JsonNull]

\* ------------------------------------------------- GitLab.fetchFileContent
\* The promise of fetchFileContent(commit, file) once its query has the
\* outcome resp: the file it resolves with and what it logs, or pending.  The
\* catch-callback parses the rejection body before it resolves: a body that is
\* not JSON, or that parses to null, makes it throw and the promise stays
\* pending.
fetchFileContent(file, resp) ==
    LET q == query(resp) IN
    CASE q.state = "resolved" ->
             [state |-> "resolved",
              file |-> IF q.value.null THEN file ELSE setContent(file, q.value.content),
              log |-> <<>>]
      [] q.state = "rejected" /\ q.parseable /\ ~q.value.null ->
             [state |-> "resolved", file |-> file,
              log |-> <<"error loading file content">>]
      [] OTHER ->
             [state |-> "pending", file |-> file, log |-> <<>>]

\* ------------------------------------------------- jsdiff.structuredPatch
Context == 4

Min(a, b) == IF a < b THEN a ELSE b

RECURSIVE CommonPrefix(_, _)
CommonPrefix(s, t) ==
    IF s = <<>> \/ t = <<>> \/ Head(s) # Head(t) THEN 0
    ELSE 1 + CommonPrefix(Tail(s), Tail(t))

Reverse(s) == [i \in 1..Len(s) |-> s[Len(s) + 1 - i]]

\* The hunks of structuredPatch(old, new) with the default context: none when
\* the texts are equal, else one hunk from Context lines before the first
\* changed line to Context lines after the last one (changes less than
\* 2 * Context lines apart share a hunk, which is every change at these sizes).
structuredPatch(oldText, newText) ==
    IF oldText = newText THEN <<>>
    ELSE LET p == CommonPrefix(oldText, newText)
             s == Min(CommonPrefix(Reverse(oldText), Reverse(newText)),
                      Min(Len(oldText), Len(newText)) - p)
             ctx == Min(p, Context) + Min(s, Context)
         IN  << [oldLines |-> ctx + Len(oldText) - p - s,
                 newLines |-> ctx + Len(newText) - p - s] >>

\* Mutant: the old side of the hunks is not subtracted.
RECURSIVE addHunks_NewOnly(_, _)
addHunks_NewOnly(file, hunks) ==
    IF hunks = <<>> THEN file
    ELSE addHunks_NewOnly(addAdditions(file, Head(hunks).newLines), Tail(hunks))

\* diff.hunks.forEach(hunk => newFile.addAdditions(hunk.newLines - hunk.oldLines))
RECURSIVE addHunks(_, _)
addHunks(file, hunks) ==
    IF hunks = <<>> THEN file
    ELSE addHunks(addAdditions(file, Head(hunks).newLines - Head(hunks).oldLines),
                  Tail(hunks))

\* atob(file.getContent()) as diffFile calls it before diffing.  On the Absent
\* marker (false) the result depends on the atob build: it throws, or it
\* decodes the text "false" to one line of junk.
atobContent(file) ==
    IF IsAbsent(file)
    THEN { [threw |-> TRUE, text |-> <<>>], [threw |-> FALSE, text |-> <<"junk">>] }
    ELSE { [threw |-> FALSE, text |-> atob(file.content.data)] }

\* ------------------------------------------------ the tests of diffFile
\* Mutant: && in place of ||.
FileInvalid_And(isIgnored, skill) == isIgnored /\ skill = ""

\* file.isIgnored() || !file.getSkill()
FileInvalid(isIgnored, skill) == isIgnored \/ skill = ""

\* !commitData, and in src/gitlab.js also a commit without parents
CommitDataMissing(im, cd) ==
    cd.null \/ (im = "src_gitlab" /\ Len(cd.parent_ids) = 0)

MissingReason(im) ==
    IF im = "part_000" THEN "error loading commit data"
    ELSE "error loading parent commit"

\* Mutant: the merge test off by one.
IsMerge_OffByOne(cd) == Len(cd.parent_ids) > 2

\* commitData.parent_ids.length > 1
IsMerge(cd) == Len(cd.parent_ids) > 1

\* Mutant: the window test compares year and month.
NotThisMonth_YearToo(today, cd) ==
    today.year # cd.created_at.year \/ getMonth(today) # getMonth(cd.created_at)

\* Mutant: the window test compares the years.
NotThisMonth_Year(today, cd) == today.year # cd.created_at.year

\* new Date().getMonth() !== new Date(commitData.created_at).getMonth()
NotThisMonth(today, cd) == getMonth(today) # getMonth(cd.created_at)

\* Mutant: every status but 'removal' and 'modification' counts as an addition.
IsAddition_Default(im, st, cd) ==
    (st # "removal" /\ st # "modification")
        \/ (im = "part_000" /\ Len(cd.parent_ids) = 0)

\* Mutant: the status test of the addition branch is lost.
IsAddition_NoStatus(im, st, cd) == im = "part_000" /\ Len(cd.parent_ids) = 0

\* status === 'addition' || commitData.parent_ids.length === 0
IsAddition(im, st, cd) ==
    st = "addition" \/ (im = "part_000" /\ Len(cd.parent_ids) = 0)

\* Mutant: the status test of the removal branch is lost.
IsRemoval_NoStatus(im, st, nf) == im = "part_000" /\ IsAbsent(nf)

\* status === 'removal' || newFile.getContent() === false
IsRemoval(im, st, nf) ==
    st = "removal" \/ (im = "part_000" /\ IsAbsent(nf))

\* Mutant: the parent's content is never tested.
IsLateAddition_Never(im, of) == FALSE

\* oldFile.getContent() === false
IsLateAddition(im, of) == im = "part_000" /\ IsAbsent(of)

\* ------------------------------------------------------------------ state
VARIABLES
    impl,        \* which revision of the class runs
    commit,      \* the commit as the repository holds it: parent ids, creation date
    status,      \* the status argument of diffFile
    isIgnored,   \* file.isIgnored() of the file name given
    skill,       \* file.getSkill() of the file name given ("" for none)
    pc,          \* "idle", then the response awaited ("commitData", "newFile",
                 \* "oldFile"), then "done" (settled) or "hung" (pending, with
                 \* no callback left that could settle it)
    promise,     \* the promise diffFile returned
    settles,     \* calls of resolve or reject on that promise
    commitData,  \* the commit metadata the then-callback received
    now,         \* the clock: what new Date() answers during the call
    newFile,     \* the File of the commit's revision
    oldFile,     \* the File of the parent's revision
    issued,      \* the queries sent, in order
    responses,   \* the outcomes of got() received, in order
    hunks,       \* diff.hunks of the structuredPatch call
    diffRuns,    \* calls of jsdiff.structuredPatch
    log,         \* console.log lines
    other        \* a second diffFile call on the same GitLab object: its
                 \* arguments and the variables of its closures, while the
                 \* call above is the one whose job runs (active is FALSE
                 \* when there is no second call)

vars == << impl, commit, status, isIgnored, skill, pc, promise, settles, commitData, now,
           newFile, oldFile, issued, responses, hunks, diffRuns, log, other >>

Pending == [state |-> "pending", reason |-> "", file |-> NewFile]

\* resolve(file) and reject(reason) of the promise executor: only the first
\* call settles the promise.
resolve(p, file) ==
    IF p.state = "pending" THEN [state |-> "resolved", reason |-> "", file |-> file]
    ELSE p

reject(p, reason) ==
    IF p.state = "pending" THEN [state |-> "rejected", reason |-> reason, file |-> NewFile]
    ELSE p

\* The arguments of a diffFile call and what its closures hold (the promise,
\* the Files, the metadata), as one value.
Call(st, c, ign, sk, at, p, n, cd, nf, of, iss, rs, hs, dr) ==
    [active |-> TRUE, status |-> st, commit |-> c, isIgnored |-> ign, skill |-> sk,
     pc |-> at, promise |-> p, settles |-> n, commitData |-> cd, newFile |-> nf,
     oldFile |-> of, issued |-> iss, responses |-> rs, hunks |-> hs, diffRuns |-> dr]

\* A call not yet made, with its arguments.
IdleCall(st, c, ign, sk) ==
    Call(st, c, ign, sk, "idle", Pending, 0, JsonNull, NewFile, NewFile,
         <<>>, <<>>, <<>>, 0)

NoCall ==
    [IdleCall("addition", [parent_ids |-> <<>>, created_at |-> [year |-> 2016, month |-> 0]],
              FALSE, "")
       EXCEPT !.active = FALSE]

\* The query paths: repository/commits/<id> and repository/files?...&ref=<id>.
\* The commit given to diffFile has ref 0; its parents are 1, 2, ...
CommitQuery == [resource |-> "commits", ref |-> 0]
FileQuery(ref) == [resource |-> "files", ref |-> ref]

\* Mutant: the parent's content is asked for together with the current one.
FetchesOfEligible_Eager(cd) ==
    IF Len(cd.parent_ids) = 0 THEN << FileQuery(0) >>
    ELSE << FileQuery(0), FileQuery(cd.parent_ids[1]) >>

\* The queries diffFile sends when the commit passes the filter: the content
\* of the commit's revision, nothing else.
FetchesOfEligible(cd) == << FileQuery(0) >>

Init ==
    /\ impl \in Impls
    /\ commit \in [parent_ids : ParentLists, created_at : Dates]
    /\ status \in Statuses
    /\ isIgnored \in BOOLEAN
    /\ skill \in {"", "javascript"}
    /\ pc = "idle"
    /\ promise = Pending
    /\ settles = 0
    /\ commitData = JsonNull
    /\ now \in Dates
    /\ newFile = NewFile
    /\ oldFile = NewFile
    /\ issued = <<>>
    /\ responses = <<>>
    /\ hunks = <<>>
    /\ diffRuns = 0
    /\ log = <<>>
    /\ other = NoCall

\* ---------------------------------------------------------------- diffFile
\* The synchronous body of diffFile(commit, filename, status): the File is
\* built and validated, then the commit metadata is asked for.
DiffFile ==
    /\ pc = "idle"
    /\ newFile' = NewFile
    /\ IF FileInvalid(isIgnored, skill)
       THEN /\ promise' = reject(promise, "ignored or unskilled file")
            /\ settles' = settles + 1
            /\ pc' = "done"
            /\ issued' = issued
       ELSE /\ issued' = Append(issued, CommitQuery)
            /\ pc' = "commitData"
            /\ UNCHANGED << promise, settles >>
    /\ UNCHANGED << impl, commit, status, isIgnored, skill, commitData, now, oldFile,
                    responses, hunks, diffRuns, log, other >>

\* The metadata query ends with resp.  diffFile gives query(...).then one
\* callback and no rejection handler: a rejected or pending query leaves
\* diffFile's promise pending.
CommitDataArrives(resp) ==
    /\ pc = "commitData"
    /\ responses' = Append(responses, resp)
    /\ LET q == query(resp) IN
       IF q.state # "resolved"
       THEN /\ pc' = "hung"
            /\ UNCHANGED << promise, settles, commitData, issued >>
       ELSE /\ commitData' = q.value
            /\ IF CommitDataMissing(impl, q.value)
               THEN /\ promise' = reject(promise, MissingReason(impl))
                    /\ settles' = settles + 1
                    /\ pc' = "done"
                    /\ issued' = issued
               ELSE IF IsMerge(q.value)
               THEN /\ promise' = reject(promise, "commit was a merge")
                    /\ settles' = settles + 1
                    /\ pc' = "done"
                    /\ issued' = issued
               ELSE IF NotThisMonth(now, q.value)
               THEN /\ promise' = reject(promise, "commit was not made this month")
                    /\ settles' = settles + 1
                    /\ pc' = "done"
                    /\ issued' = issued
               ELSE /\ issued' = issued \o FetchesOfEligible(q.value)
                    /\ pc' = "newFile"
                    /\ UNCHANGED << promise, settles >>
    /\ UNCHANGED << impl, commit, status, isIgnored, skill, now, newFile, oldFile, hunks,
                    diffRuns, log, other >>

\* The content query of the commit's revision ends with resp.
NewFileArrives(resp) ==
    /\ pc = "newFile"
    /\ responses' = Append(responses, resp)
    /\ LET f == fetchFileContent(newFile, resp) IN
       IF f.state # "resolved"
       THEN /\ pc' = "hung"
            /\ UNCHANGED << promise, settles, newFile, issued, log >>
       ELSE IF IsAddition(impl, status, commitData)
       THEN /\ log' = log \o f.log \o <<"detected addition">>
            /\ newFile' = setAdditions(f.file, getLines(f.file))
            /\ promise' = resolve(promise, newFile')
            /\ settles' = settles + 1
            /\ pc' = "done"
            /\ issued' = issued
       ELSE /\ log' = log \o f.log
            /\ newFile' = f.file
            /\ issued' = Append(issued, FileQuery(commitData.parent_ids[1]))
            /\ pc' = "oldFile"
            /\ UNCHANGED << promise, settles >>
    /\ UNCHANGED << impl, commit, status, isIgnored, skill, commitData, now, oldFile,
                    hunks, diffRuns, other >>

\* The content query of the parent's revision ends with resp.
OldFileArrives(resp) ==
    /\ pc = "oldFile"
    /\ responses' = Append(responses, resp)
    /\ LET f == fetchFileContent(NewFile, resp) IN
       IF f.state # "resolved"
       THEN /\ pc' = "hung"
            /\ UNCHANGED << promise, settles, newFile, oldFile, hunks, diffRuns, log >>
       ELSE IF IsRemoval(impl, status, newFile)
       THEN /\ log' = log \o f.log \o <<"detected removal">>
            /\ oldFile' = setAdditions(f.file, 0 - getLines(f.file))
            /\ promise' = resolve(promise, oldFile')
            /\ settles' = settles + 1
            /\ pc' = "done"
            /\ UNCHANGED << newFile, hunks, diffRuns >>
       ELSE IF IsLateAddition(impl, f.file)
       THEN /\ log' = log \o f.log \o <<"detected addition">>
            /\ oldFile' = f.file
            /\ newFile' = setAdditions(newFile, getLines(newFile))
            /\ promise' = resolve(promise, newFile')
            /\ settles' = settles + 1
            /\ pc' = "done"
            /\ UNCHANGED << hunks, diffRuns >>
       ELSE /\ oldFile' = f.file
            /\ \E o \in atobContent(f.file), n \in atobContent(newFile) :
                 IF o.threw \/ n.threw
                 THEN /\ pc' = "hung"
                      /\ log' = log \o f.log
                      /\ UNCHANGED << promise, settles, newFile, hunks, diffRuns >>
                 ELSE /\ hunks' = structuredPatch(o.text, n.text)
                      /\ diffRuns' = diffRuns + 1
                      /\ newFile' = addHunks(newFile, hunks')
                      /\ log' = log \o f.log \o
                                  (IF Len(hunks') > 0 THEN <<"parsed diffs">>
                                   ELSE <<"no diffs found">>)
                      /\ promise' = resolve(promise, newFile')
                      /\ settles' = settles + 1
                      /\ pc' = "done"
    /\ UNCHANGED << impl, commit, status, isIgnored, skill, commitData, now, issued,
                    other >>

Next ==
    \/ DiffFile
    \/ \E resp \in CommitResponses(commit) : CommitDataArrives(resp)
    \/ \E resp \in FileResponses : NewFileArrives(resp)
    \/ \E resp \in FileResponses : OldFileArrives(resp)

Spec == Init /\ [][Next]_vars

\* ------------------------------------------- two calls on one GitLab object
\* The call whose variables are the ones above, as one value.
Running ==
    Call(status, commit, isIgnored, skill, pc, promise, settles, commitData,
         newFile, oldFile, issued, responses, hunks, diffRuns)

\* Mutant: the File of the commit's revision is a field of the GitLab object,
\* shared by the calls, and not a constant of the call's closure.
Switch_SharedFile ==
    /\ other.active
    /\ other' = [Running EXCEPT !.newFile = other.newFile]
    /\ status' = other.status
    /\ commit' = other.commit
    /\ isIgnored' = other.isIgnored
    /\ skill' = other.skill
    /\ pc' = other.pc
    /\ promise' = other.promise
    /\ settles' = other.settles
    /\ commitData' = other.commitData
    /\ oldFile' = other.oldFile
    /\ issued' = other.issued
    /\ responses' = other.responses
    /\ hunks' = other.hunks
    /\ diffRuns' = other.diffRuns
    /\ UNCHANGED << impl, now, log, newFile >>

\* Mutant: the additions counter is one for all Files of the GitLab object.
Switch_SharedAdditions ==
    /\ other.active
    /\ other' = Running
    /\ status' = other.status
    /\ commit' = other.commit
    /\ isIgnored' = other.isIgnored
    /\ skill' = other.skill
    /\ pc' = other.pc
    /\ promise' = other.promise
    /\ settles' = other.settles
    /\ commitData' = other.commitData
    /\ newFile' = [other.newFile EXCEPT !.additions = newFile.additions]
    /\ oldFile' = other.oldFile
    /\ issued' = other.issued
    /\ responses' = other.responses
    /\ hunks' = other.hunks
    /\ diffRuns' = other.diffRuns
    /\ UNCHANGED << impl, now, log >>

\* Between two jobs the event loop may turn to the other call: the next job
\* is then one of its callbacks, or its own call of diffFile.  Arguments,
\* promise, Files and metadata are constants and parameters of the closures of
\* each call; the GitLab object (url, token), the clock and the console are
\* what the calls share.
Switch ==
    /\ other.active
    /\ other' = Running
    /\ status' = other.status
    /\ commit' = other.commit
    /\ isIgnored' = other.isIgnored
    /\ skill' = other.skill
    /\ pc' = other.pc
    /\ promise' = other.promise
    /\ settles' = other.settles
    /\ commitData' = other.commitData
    /\ newFile' = other.newFile
    /\ oldFile' = other.oldFile
    /\ issued' = other.issued
    /\ responses' = other.responses
    /\ hunks' = other.hunks
    /\ diffRuns' = other.diffRuns
    /\ UNCHANGED << impl, now, log >>

\* The arguments and the answers the two-call runs draw from: one date, files
\* ignored or not, commits with no parent or one, and six answers to a
\* content query.
TwoCallDate == [year |-> 2016, month |-> 0]

TwoCallArguments ==
    { IdleCall(st, [parent_ids |-> p, created_at |-> TwoCallDate], ign, "javascript") :
        st \in {"addition", "removal", "modification"}, p \in {<<>>, <<1>>},
        ign \in BOOLEAN }

TwoCallFileResponses ==
    { Response("ok", TRUE, JsonNull),
      Response("ok", TRUE, JsonFile(<<>>)),
      Response("ok", TRUE, JsonFile(<<"a">>)),
      Response("ok", TRUE, JsonFile(<<"a", "b">>)),
      Response("http", TRUE, JsonError("404 Not Found")),
      Response("http", FALSE, JsonNull) }

InitTwo ==
    /\ impl = "part_000"
    /\ now = TwoCallDate
    /\ log = <<>>
    /\ other \in TwoCallArguments
    /\ \E first \in TwoCallArguments :
         /\ status = first.status
         /\ commit = first.commit
         /\ isIgnored = first.isIgnored
         /\ skill = first.skill
         /\ pc = first.pc
         /\ promise = first.promise
         /\ settles = first.settles
         /\ commitData = first.commitData
         /\ newFile = first.newFile
         /\ oldFile = first.oldFile
         /\ issued = first.issued
         /\ responses = first.responses
         /\ hunks = first.hunks
         /\ diffRuns = first.diffRuns

NextTwo ==
    \/ DiffFile
    \/ \E resp \in CommitResponses(commit) : CommitDataArrives(resp)
    \/ \E resp \in TwoCallFileResponses : NewFileArrives(resp)
    \/ \E resp \in TwoCallFileResponses : OldFileArrives(resp)
    \/ Switch

SpecTwo == InitTwo /\ [][NextTwo]_vars

\* ================================================================ claims
Rejected(reason) == promise.state = "rejected" /\ promise.reason = reason

Resolved == promise.state = "resolved"

Delta == promise.file.additions

\* The response carries a file payload (a 2xx response with a JSON object).
HasPayload(resp) == resp.kind = "ok" /\ resp.parseable /\ ~resp.value.null

\* The content a File holds after a fetch that ended with resp and resolved.
FetchedContent(resp) ==
    IF HasPayload(resp) THEN [isSet |-> TRUE, data |-> resp.value.content] ELSE Absent

\* The line count of the text the response carries, 0 without a payload.
PayloadLines(resp) == IF HasPayload(resp) THEN Len(resp.value.content) ELSE 0

\* The metadata was loaded: the then-callback of the metadata query ran on data.
MetadataLoaded == Len(responses) >= 1 /\ HasPayload(responses[1])

NoFileQuery == \A i \in 1..Len(issued) : issued[i].resource # "files"

\* ---- C1
\* C1 as stated: every settled diffFile call on a commit with more than one
\* parent has been rejected with 'commit was a merge', whatever the file path.
\* An ignored or unskilled path is rejected first, with another reason.
C1_AsStated ==
    (pc = "done" /\ Len(commit.parent_ids) > 1) => Rejected("commit was a merge")

\* C1 amended: once the metadata of a commit with more than one parent has
\* been loaded (which needs a file path that passed validation), diffFile has
\* rejected with 'commit was a merge' and has fetched no content, whatever the
\* status, the month and the revision of the class.
C1_MergeRejected ==
    (MetadataLoaded /\ Len(commit.parent_ids) > 1)
        => /\ pc = "done"
           /\ Rejected("commit was a merge")
           /\ settles = 1
           /\ issued = << CommitQuery >>

C1_Witness ==
    /\ MetadataLoaded /\ Len(commit.parent_ids) > 1
    /\ Rejected("commit was a merge")
    /\ status = "removal"
    /\ getMonth(now) # getMonth(commit.created_at)

\* ---- C2
\* The query failed in transport (an HTTP error status, or no response at
\* all), or it answered with nothing (null).
TransportError(resp) == resp.kind # "ok"

ReturnedNothing(resp) == resp.kind = "ok" /\ resp.parseable /\ resp.value.null

\* C2: in part_000, once the metadata query has ended in a transport error or
\* with nothing, diffFile's promise is rejected with 'error loading commit
\* data'.  (All callbacks of a response run in the step that receives it: a
\* rejection that is not there in the next state never comes.)
C2_FailureRejects ==
    (/\ impl = "part_000"
     /\ Len(responses) >= 1
     /\ (TransportError(responses[1]) \/ ReturnedNothing(responses[1])))
        => Rejected("error loading commit data")

\* ---- C3
\* C3 as stated: a resolved diffFile call with status 'removal' carries a delta
\* <= 0 equal to minus the line count of the parent's file, with zero parents
\* or one.
C3_AsStated ==
    (status = "removal" /\ Resolved)
        => /\ Delta <= 0
           /\ Delta = 0 - getLines(oldFile)

\* C3 amended: a resolved diffFile call with status 'removal' on a commit with
\* exactly one parent resolves with the parent's File, and its delta is <= 0
\* and equal to minus the line count of the content fetched at the parent
\* revision (for a fetch that gave Absent: the line count of an Absent File),
\* whatever the content of the current revision.
C3_RemovalDelta ==
    (status = "removal" /\ Resolved /\ Len(commitData.parent_ids) = 1)
        => /\ Len(responses) = 3
           /\ promise.file = oldFile
           /\ oldFile.content = FetchedContent(responses[3])
           /\ Delta = (IF HasPayload(responses[3]) THEN 0 - PayloadLines(responses[3])
                       ELSE 0 - getLines(oldFile))
           /\ Delta <= 0

C3_Witness ==
    /\ status = "removal" /\ Resolved /\ Len(commitData.parent_ids) = 1
    /\ Delta = 0 - MaxLines
    /\ getLines(newFile) = 1

SameMonth == getMonth(now) = getMonth(commit.created_at)

\* The content fetch of the current revision has come back and resolved.
CurrentFetched == Len(responses) >= 2 /\ (Len(responses) = 2 => pc # "hung")

\* ---- C4
\* C4: for a commit without parents made in the current month, diffFile with
\* status 'modification' on a valid file does not reject, fetches no parent,
\* and once the content of the commit's revision is fetched it has resolved
\* with that File and a delta equal to its line count.
C4_InitialCommitAdds ==
    (/\ MetadataLoaded
     /\ Len(commit.parent_ids) = 0
     /\ SameMonth
     /\ status = "modification")
        => /\ promise.state # "rejected"
           /\ \A i \in 1..Len(issued) : issued[i] \in {CommitQuery, FileQuery(0)}
           /\ CurrentFetched
                => /\ Resolved
                   /\ promise.file = newFile
                   /\ Delta = PayloadLines(responses[2])

\* C4 for the revision of part_000 alone, where it holds.
C4_InitialCommitAdds_part_000 == impl = "part_000" => C4_InitialCommitAdds

\* The server answered: a 2xx response with a JSON body, or an error status
\* with some body.
Answered(resp) == resp.kind = "http" \/ (resp.kind = "ok" /\ resp.parseable)

\* ---- C5
\* C5: whatever the server answers to its query (a payload, 'not found', or
\* another error status, with or without a JSON body), fetchFileContent has
\* resolved once the answer is in (diffFile, which waits for nothing else, has
\* gone on), and the File holds the payload's content, or Absent without a
\* payload.
C5_FetchAlwaysResolves ==
    (Len(responses) >= 2 /\ Answered(responses[2]))
        => /\ Len(responses) = 2 => pc # "hung"
           /\ newFile.content = FetchedContent(responses[2])

\* ---- C6
\* C6: in part_000, when the server has answered every query diffFile has
\* issued, with data or with an error status, its promise is settled, by
\* exactly one call of resolve or reject.
C6_SettlesOnce ==
    (/\ impl = "part_000"
     /\ pc # "idle"
     /\ Len(responses) = Len(issued)
     /\ \A i \in 1..Len(responses) : Answered(responses[i]))
        => /\ promise.state # "pending"
           /\ settles = 1

\* ---- C7
\* C7 as stated, for part_000 and the runs that fetched both revisions of a
\* single-parent commit: current Absent and parent present gives minus the
\* parent's line count, parent Absent and current present gives the current
\* line count, for every status.
C7_AsStated ==
    (/\ impl = "part_000"
     /\ Resolved
     /\ Len(commitData.parent_ids) = 1
     /\ Len(responses) = 3)
        => /\ (~HasPayload(responses[2]) /\ HasPayload(responses[3]))
                => Delta = 0 - PayloadLines(responses[3])
           /\ (HasPayload(responses[2]) /\ ~HasPayload(responses[3]))
                => Delta = PayloadLines(responses[2])

\* C7 amended: in part_000, on an eligible single-parent commit, content
\* presence overrides the status except where the status itself decides: with
\* the current content Absent and the parent's present, every status but
\* 'addition' resolves with the parent's File and minus its line count; with
\* the current content present and the parent's Absent (or, for 'addition',
\* never fetched), every status but 'removal' resolves with the current File
\* and its line count.
C7_ContentOverrides ==
    (/\ impl = "part_000"
     /\ Resolved
     /\ Len(commitData.parent_ids) = 1)
        => /\ (/\ status # "addition"
               /\ ~HasPayload(responses[2])
               /\ HasPayload(responses[3]))
                => /\ promise.file = oldFile
                   /\ Delta = 0 - PayloadLines(responses[3])
           /\ (/\ status # "removal"
               /\ HasPayload(responses[2])
               /\ Len(responses) = 3 => ~HasPayload(responses[3]))
                => /\ promise.file = newFile
                   /\ Delta = PayloadLines(responses[2])

C7_Witness ==
    /\ impl = "part_000" /\ Resolved /\ Len(commitData.parent_ids) = 1
    /\ status = "modification"
    /\ Len(responses) = 3
    /\ HasPayload(responses[2]) /\ ~HasPayload(responses[3])
    /\ Delta = MaxLines

\* ---- C8
\* C8: with status 'addition', once the content of the current revision of an
\* eligible commit has come back with a payload, diffFile has resolved with
\* that File and a delta equal to the payload's line count; the only queries
\* of the run are the metadata and that one fetch, and no diff was computed.
C8_AdditionDelta ==
    (status = "addition" /\ Len(responses) >= 2 /\ HasPayload(responses[2]))
        => /\ pc = "done"
           /\ Resolved
           /\ settles = 1
           /\ promise.file = newFile
           /\ Delta = PayloadLines(responses[2])
           /\ issued = << CommitQuery, FileQuery(0) >>
           /\ diffRuns = 0
           /\ hunks = <<>>

C8_Witness ==
    /\ status = "addition" /\ Len(responses) >= 2 /\ HasPayload(responses[2])
    /\ Len(commitData.parent_ids) = 1
    /\ Resolved
    /\ Delta = MaxLines

\* ---- C9
\* C9: a call whose file is ignored or has no skill has rejected with 'ignored
\* or unskilled file' as soon as diffFile returns, and the run never issues a
\* query or receives a response.
C9_InvalidFileRejected ==
    ((isIgnored \/ skill = "") /\ pc # "idle")
        => /\ pc = "done"
           /\ Rejected("ignored or unskilled file")
           /\ settles = 1
           /\ issued = <<>>
           /\ responses = <<>>

C9_Witness ==
    /\ isIgnored /\ skill = "javascript"
    /\ Rejected("ignored or unskilled file")
    /\ Len(commit.parent_ids) = 1

\* ---- C10
\* C10 as stated, for part_000: once the metadata of a commit made in another
\* month than the current one is loaded, diffFile has rejected with 'commit
\* was not made this month' and the run has no content fetch.
C10_AsStated ==
    (impl = "part_000" /\ MetadataLoaded /\ ~SameMonth)
        => /\ Rejected("commit was not made this month")
           /\ NoFileQuery

\* The commit passes the tests diffFile makes before the window test.
ReachesWindowTest ==
    /\ MetadataLoaded
    /\ Len(commit.parent_ids) <= 1
    /\ impl = "src_gitlab" => Len(commit.parent_ids) = 1

\* C10 amended: a run on a commit made in another month than the current one
\* never issues a content fetch; and when the commit is not rejected by an
\* earlier test (it has at most one parent; in src/gitlab.js exactly one),
\* diffFile has rejected with 'commit was not made this month' once the
\* metadata is loaded.
C10_OutOfWindow ==
    ~SameMonth
        => /\ NoFileQuery
           /\ ReachesWindowTest
                => /\ pc = "done"
                   /\ Rejected("commit was not made this month")
                   /\ settles = 1

C10_Witness ==
    /\ ~SameMonth /\ ReachesWindowTest
    /\ now.year = commit.created_at.year
    /\ Rejected("commit was not made this month")

\* fetchFileContent resolves on this outcome of its query: a 2xx JSON body,
\* or an error status whose body is a JSON object.
FetchResolves(resp) ==
    \/ resp.kind = "ok" /\ resp.parseable
    \/ resp.kind = "http" /\ resp.parseable /\ ~resp.value.null

\* Both content fetches of a single-parent commit have come back and resolved.
BothFetched ==
    /\ Len(commitData.parent_ids) = 1
    /\ Len(responses) = 3
    /\ FetchResolves(responses[2])
    /\ FetchResolves(responses[3])

\* ---- C11
\* C11: for an eligible single-parent commit with status 'modification' whose
\* current-content fetch gave Absent, diffFile has resolved, once the parent
\* is fetched, with the parent's File and minus the parent's line count, and
\* no diff was computed.
C11_AbsentCurrentRemoves ==
    (status = "modification" /\ BothFetched /\ ~HasPayload(responses[2]))
        => /\ pc = "done"
           /\ Resolved
           /\ promise.file = oldFile
           /\ oldFile.content = FetchedContent(responses[3])
           /\ Delta = (IF HasPayload(responses[3]) THEN 0 - PayloadLines(responses[3])
                       ELSE 0 - getLines(oldFile))
           /\ diffRuns = 0
           /\ hunks = <<>>

\* C11 for the revision of part_000 alone, where it holds.
C11_AbsentCurrentRemoves_part_000 == impl = "part_000" => C11_AbsentCurrentRemoves

\* ---- C12
RECURSIVE SumHunks(_)
SumHunks(hs) ==
    IF hs = <<>> THEN 0
    ELSE Head(hs).newLines - Head(hs).oldLines + SumHunks(Tail(hs))

C15_QueriesInOrder ==
    /\ Len(issued) <= Len(responses) + 1
    /\ Len(issued) <= 3
    /\ Len(issued) >= 1 => issued[1] = CommitQuery
    /\ Len(issued) >= 2 => (MetadataLoaded /\ issued[2] = FileQuery(0))
    /\ Len(issued) >= 3
         => /\ FetchResolves(responses[2])
            /\ Len(commitData.parent_ids) = 1
            /\ issued[3] = FileQuery(commitData.parent_ids[1])
            /\ issued[3] # issued[2]

C15_Witness ==
    /\ Len(issued) = 3 /\ Len(responses) = 3
    /\ Resolved /\ diffRuns = 1

EmptyPayload(resp) == HasPayload(resp) /\ resp.value.content = <<>>

\* C17: in part_000, a file that exists with an empty payload is not Absent:
\* with status 'modification', an empty current file (parent present, empty or
\* not) and an empty parent file (current present) both go through the diff
\* (structuredPatch runs once and the current File is the result), not
\* through the removal branch or the treat-as-addition branch.
C17_EmptyIsNotAbsent ==
    /\ (Len(responses) >= 2 /\ FetchResolves(responses[2]) /\ EmptyPayload(responses[2]))
          => (newFile.content.isSet /\ newFile.content # Absent)
    /\ (/\ impl = "part_000"
        /\ status = "modification"
        /\ BothFetched
        /\ HasPayload(responses[2])
        /\ HasPayload(responses[3])
        /\ (EmptyPayload(responses[2]) \/ EmptyPayload(responses[3])))
          => /\ Resolved
             /\ oldFile.content.isSet
             /\ diffRuns = 1
             /\ promise.file = newFile
             /\ Delta = PayloadLines(responses[2]) - PayloadLines(responses[3])
             /\ \A i \in 1..Len(log) :
                  log[i] # "detected removal" /\ log[i] # "detected addition"

C17_Witness ==
    /\ impl = "part_000" /\ status = "modification" /\ BothFetched
    /\ EmptyPayload(responses[2])
    /\ HasPayload(responses[3]) /\ PayloadLines(responses[3]) = 2
    /\ Resolved /\ diffRuns = 1 /\ Delta = 0 - 2

\* ---- C18
\* The delta part_000 gives a single-parent commit when neither 'addition' nor
\* 'removal' decides: by the Absent tests first, then by the hunks.
ReconciledDelta ==
    IF ~HasPayload(responses[2])
    THEN (IF HasPayload(responses[3]) THEN 0 - PayloadLines(responses[3])
          ELSE 0 - getLines(oldFile))
    ELSE IF ~HasPayload(responses[3]) THEN PayloadLines(responses[2])
    ELSE SumHunks(hunks)

\* C18: every status other than 'addition' and 'removal' ('modification' and
\* any value the code does not name alike) is handled in one way: on an
\* eligible single-parent commit the parent is fetched as soon as the current
\* content is in, in part_000 the result is the one the Absent tests and the
\* hunk sum give, and the status causes no rejection: a rejected run never
\* got past the metadata.
C18_OtherStatusIsModification ==
    /\ promise.state = "rejected" => Len(issued) <= 1
    /\ (/\ status # "addition"
        /\ status # "removal"
        /\ Len(commitData.parent_ids) = 1
        /\ Len(responses) >= 2
        /\ FetchResolves(responses[2]))
          => /\ issued = << CommitQuery, FileQuery(0), FileQuery(commitData.parent_ids[1]) >>
             /\ (impl = "part_000" /\ BothFetched)
                  => /\ pc = "done"
                     /\ Resolved
                     /\ Delta = ReconciledDelta
                     /\ diffRuns = (IF HasPayload(responses[2]) /\ HasPayload(responses[3])
                                    THEN 1 ELSE 0)

C18_Witness ==
    /\ status = "unknown" /\ impl = "part_000" /\ BothFetched
    /\ Resolved /\ diffRuns = 1 /\ Delta = 1

\* ---- C19
\* C19: the window test looks at the month of year alone: once the metadata of
\* a commit that passes the earlier tests and was made in the month number of
\* the current date is loaded, whatever the two years are, diffFile has not
\* rejected and has asked for the content at the commit; it goes on as for a
\* commit of the current month of the current year.
C19_MonthNumberOnly ==
    (ReachesWindowTest /\ getMonth(now) = getMonth(commit.created_at))
        => /\ promise.state # "rejected"
           /\ Len(issued) >= 2
           /\ issued[2] = FileQuery(0)
           /\ (status = "addition" /\ Len(responses) >= 2 /\ FetchResolves(responses[2]))
                => (Resolved /\ Delta = PayloadLines(responses[2]))

C19_Witness ==
    /\ ReachesWindowTest
    /\ getMonth(now) = getMonth(commit.created_at)
    /\ now.year # commit.created_at.year
    /\ status = "addition"
    /\ Resolved /\ Delta = 2

\* ---- C13, C14: two calls on one GitLab object
\* What a call has come to: the state of its promise, the reason of a
\* rejection, and the delta and the content of the File it resolved with.
Outcome(call) ==
    [state |-> call.promise.state, reason |-> call.promise.reason,
     delta |-> call.promise.file.additions, content |-> call.promise.file.content]

Unsettled == [state |-> "pending", reason |-> "", delta |-> 0, content |-> Absent]

RejectedWith(reason) == [Unsettled EXCEPT !.state = "rejected", !.reason = reason]

ResolvedWith(resp, n) ==
    [state |-> "resolved", reason |-> "", delta |-> n, content |-> FetchedContent(resp)]

\* What part_000 makes of a call's arguments and of the answers to the call's
\* own queries, by the rules of diffFile in their order: the outcome of the
\* call when nothing else runs on the GitLab object.
AloneOutcome(call) ==
    LET r == call.responses
        n == Len(r)
    IN  IF call.pc = "idle" THEN Unsettled
        ELSE IF call.isIgnored \/ call.skill = ""
             THEN RejectedWith("ignored or unskilled file")
        ELSE IF n >= 1 /\ ReturnedNothing(r[1])
             THEN RejectedWith("error loading commit data")
        ELSE IF n = 0 \/ ~HasPayload(r[1]) THEN Unsettled
        ELSE IF Len(r[1].value.parent_ids) > 1 THEN RejectedWith("commit was a merge")
        ELSE IF getMonth(r[1].value.created_at) # getMonth(now)
             THEN RejectedWith("commit was not this month")
        ELSE IF n < 2 \/ ~FetchResolves(r[2]) THEN Unsettled
        ELSE IF call.status = "addition" \/ Len(r[1].value.parent_ids) = 0
             THEN ResolvedWith(r[2], PayloadLines(r[2]))
        ELSE IF n < 3 \/ ~FetchResolves(r[3]) THEN Unsettled
        ELSE IF call.status = "removal" \/ ~HasPayload(r[2])
             THEN ResolvedWith(r[3], 0 - PayloadLines(r[3]))
        ELSE IF ~HasPayload(r[3]) THEN ResolvedWith(r[2], PayloadLines(r[2]))
        ELSE ResolvedWith(r[2], PayloadLines(r[2]) - PayloadLines(r[3]))

\* The Files of a call hold what the call's own content queries brought, and
\* nothing before.
OwnFiles(call) ==
    /\ call.newFile.content =
          (IF Len(call.responses) >= 2 /\ FetchResolves(call.responses[2])
           THEN FetchedContent(call.responses[2]) ELSE Absent)
    /\ call.oldFile.content =
          (IF Len(call.responses) >= 3 /\ FetchResolves(call.responses[3])
           THEN FetchedContent(call.responses[3]) ELSE Absent)
    /\ call.oldFile.additions = 0 \/ call.promise.file = call.oldFile
    /\ call.newFile.additions = 0 \/ call.promise.file = call.newFile

SameArguments(c1, c2) ==
    /\ c1.status = c2.status
    /\ c1.commit = c2.commit
    /\ c1.isIgnored = c2.isIgnored
    /\ c1.skill = c2.skill

\* C13: in part_000, two diffFile calls with the same arguments whose queries
\* got the same answers have come to the same: the same settlement, the same
\* reason, the same delta on a File with the same content, whatever the order
\* of the two calls and of their callbacks; the delta of one is computed from
\* a File whose additions were 0, not from what the other accumulated.
C13_SameCallSameOutcome ==
    (/\ other.active
     /\ SameArguments(Running, other)
     /\ pc # "idle" /\ other.pc # "idle"
     /\ responses = other.responses)
        => /\ promise = other.promise
           /\ newFile = other.newFile
           /\ oldFile = other.oldFile
           /\ hunks = other.hunks
           /\ diffRuns = other.diffRuns

\* Both calls, same arguments and same answers, went through the diff and
\* resolved with a delta that is not 0.
C13_Witness ==
    /\ other.active
    /\ SameArguments(Running, other)
    /\ responses = other.responses
    /\ diffRuns = 1 /\ other.diffRuns = 1
    /\ Resolved /\ other.promise.state = "resolved"
    /\ Delta = 1 /\ other.promise.file.additions = 1

\* C14: in part_000, of two diffFile calls in flight on one GitLab object,
\* each has at every moment the outcome that its own arguments and the
\* answers to its own queries give when it runs alone, under every
\* interleaving of the callbacks, and the Files of each hold only what its own
\* queries brought.
C14_CallsIndependent ==
    \A call \in {Running, other} :
        call.active => (Outcome(call) = AloneOutcome(call) /\ OwnFiles(call))

\* One call, a modification, has resolved through the diff with delta 1
\* while the other, a removal with other answers, is in flight between its two
\* content queries, holding its own two-line content.
C14_Witness ==
    /\ other.active
    /\ status = "modification" /\ other.status = "removal"
    /\ Len(responses) = 3 /\ diffRuns = 1
    /\ Resolved /\ Delta = 1
    /\ other.pc = "oldFile" /\ Len(other.responses) = 2
    /\ other.promise.state = "pending"
    /\ PayloadLines(other.responses[2]) = 2
    /\ responses[2] # other.responses[2]

====
